---- MODULE Spec2Model ----
(***************************************************************************)
(* Model of cax/core/ca.py: the CA engine (perceive + update composed     *)
(* into step, iterated by a scan in __call__).                            *)
(*                                                                         *)
(* A State tensor is abstracted to its shape (one extent) and one cell    *)
(* value; every cell of the grid carries the same value in the modelled   *)
(* units, as in the "all cells incremented" scenario.                     *)
(***************************************************************************)
EXTENDS Integers, Sequences, FiniteSets, TLC

\* ---------------------------------------------------------------- bounds
MaxShape == 2      \* state shapes are 1..MaxShape
Mod == 3           \* cell values are 0..Mod-1 (arithmetic wraps)
MaxIn == 1         \* input element values are 0..MaxIn
MaxLen == 2        \* per-step input sequences have 0..MaxLen slices
MaxSteps == 2      \* num_steps ranges over -1..MaxSteps
MaxKey == 2        \* PRNG keys are 0..MaxKey

\* ---------------------------------------------------------------- values
None == <<>>                       \* Python None for input_in_axis
Some(a) == <<a>>

Shapes == 1..MaxShape
States == [shape : Shapes, val : 0..(Mod - 1)]

NoState == [shape |-> 1, val |-> 0]   \* placeholder while no call is active

SeqsUpTo(S, n) == UNION {[1..k -> S] : k \in 0..n}

\* Input | None: absent, a 0-d array, or a 1-d array of slices
NoInput == [kind |-> "none", xs |-> <<>>]
Scalar(v) == [kind |-> "scalar", xs |-> <<v>>]
Array(xs) == [kind |-> "array", xs |-> xs]
Inputs ==
    {NoInput} \cup {Scalar(v) : v \in 0..MaxIn}
              \cup {Array(xs) : xs \in SeqsUpTo(0..MaxIn, MaxLen)}

Axes == {None, Some(0)}

\* what a call gives back
NoResult == [kind |-> "none", states |-> <<>>, err |-> ""]
RetState(s) == [kind |-> "state", states |-> <<s>>, err |-> ""]
RetStates(ss) == [kind |-> "trajectory", states |-> ss, err |-> ""]
Raise(e) == [kind |-> "error", states |-> <<>>, err |-> e]

\* ------------------------------------------------- collaborators (units)
PerceiveUnits == {"identity", "neighbours", "wide"}
UpdateUnits ==
    {"increment", "add_perception", "add_input", "mix_input", "from_perception", "grow"}

RECURSIVE SumSeq(_)
SumSeq(xs) == IF xs = <<>> THEN 0 ELSE Head(xs) + SumSeq(Tail(xs))

InVal(inp) == SumSeq(inp.xs)

\* Perceive.__call__(state) -> perception
PerceiveApply(p, state) ==
    CASE p = "identity" -> state
      [] p = "neighbours" -> [shape |-> state.shape, val |-> (2 * state.val + 1) % Mod]
      [] p = "wide" -> [shape |-> state.shape + 1, val |-> state.val]

\* Update.__call__(state, perception, input) -> state
UpdateApply(u, state, perception, inp) ==
    CASE u = "increment" -> [shape |-> state.shape, val |-> (state.val + 1) % Mod]
      [] u = "add_perception" ->
            [shape |-> state.shape, val |-> (state.val + perception.val) % Mod]
      [] u = "add_input" ->
            [shape |-> state.shape, val |-> (state.val + InVal(inp)) % Mod]
      [] u = "mix_input" ->     \* the order of the inputs shows in the result
            [shape |-> state.shape, val |-> (2 * state.val + InVal(inp)) % Mod]
      [] u = "from_perception" -> perception
      [] u = "grow" -> [shape |-> state.shape + 1, val |-> state.val]

\* ------------------------------------------------------------------ state
VARIABLES
    self,           \* the engine: its perceive and update fields
    pc,             \* "idle" | "scan" | "done"
    op,             \* the method being (or last) called: "none" | "step" | "run"
    first_state,    \* arguments of the call
    input,
    num_steps,
    all_steps,
    input_in_axis,
    i,              \* scan iteration counter
    state,          \* scan carry (the state half of (ca, state))
    states,         \* scan outputs stacked so far
    calls,          \* record of the ca.step calls made by the current call
    result,         \* what the call returned or raised
    plan,           \* the caller's script of calls (NoPlan: any calls, in any order)
    hist            \* results the scripted caller has collected

vars == <<self, pc, op, first_state, input, num_steps, all_steps, input_in_axis,
          i, state, states, calls, result, plan, hist>>

NoPlan == [kind |-> "none", s |-> NoState, inp |-> NoInput, a |-> 0, b |-> 0]

\* CA.__init__
CAInit(perceive, update) == [perceive |-> perceive, update |-> update]

\* step with `state` overwritten by the perception before update sees it
stepOverwritten(ca, st, inp) ==
    LET perception == PerceiveApply(ca.perceive, st)
        new == UpdateApply(ca.update, perception, perception, inp)
    IN [perceive_calls |-> <<st>>,
        update_calls |-> <<[state |-> perception, perception |-> perception,
                            input |-> inp]>>,
        out |-> new]

\* CA.step: what it passes to the units and what it returns
step(ca, st, inp) ==
    LET perception == PerceiveApply(ca.perceive, st)
        new == UpdateApply(ca.update, st, perception, inp)
    IN [perceive_calls |-> <<st>>,
        update_calls |-> <<[state |-> st, perception |-> perception, input |-> inp]>>,
        out |-> new]

\* a scan that hands slice 0 to every iteration
ScanSliceFirst(inp, axis, k) ==
    IF axis = None \/ inp.kind = "none" THEN inp
    ELSE Scalar(inp.xs[1])

\* a scan that walks the input from its last slice to its first
ScanSliceFromEnd(inp, axis, k) ==
    IF axis = None \/ inp.kind = "none" THEN inp
    ELSE Scalar(inp.xs[Len(inp.xs) - k])

\* nnx.scan in_axes=(Carry, input_in_axis): the x handed to iteration k (0-based)
ScanSlice(inp, axis, k) ==
    IF axis = None \/ inp.kind = "none" THEN inp
    ELSE Scalar(inp.xs[k + 1])

\* a scan that accepts an input shorter than `length`
ScanCheckNoShort(ca, s, inp, n, all, axis) ==
    IF axis # None /\ inp.kind = "scalar" THEN {"ValueError"}
    ELSE IF axis # None /\ inp.kind = "array" /\ Len(inp.xs) > n THEN {"ValueError"}
    ELSE IF step(ca, s, NoInput).out.shape # s.shape THEN {"TypeError"}
    ELSE IF n < 0 /\ all THEN {"ValueError"}
    ELSE IF n < 0 THEN {"TypeError", ""}
    ELSE {""}

\* a scan that reads the first `length` slices of a longer input
ScanCheckTruncates(ca, s, inp, n, all, axis) ==
    IF axis # None /\ inp.kind = "scalar" THEN {"ValueError"}
    ELSE IF axis # None /\ inp.kind = "array" /\ Len(inp.xs) < n THEN {"ValueError"}
    ELSE IF step(ca, s, NoInput).out.shape # s.shape THEN {"TypeError"}
    ELSE IF n < 0 /\ all THEN {"ValueError"}
    ELSE IF n < 0 THEN {"TypeError", ""}
    ELSE {""}

\* a scan that does not compare the carry's type before and after the body
ScanCheckNoCarryType(ca, s, inp, n, all, axis) ==
    IF axis # None /\ inp.kind = "scalar" THEN {"ValueError"}
    ELSE IF axis # None /\ inp.kind = "array" /\ Len(inp.xs) # n THEN {"ValueError"}
    ELSE IF n < 0 /\ all THEN {"ValueError"}
    ELSE IF n < 0 THEN {"TypeError", ""}
    ELSE {""}

\* nnx.scan(step, in_axes=(Carry, input_in_axis), length=num_steps): the outcomes
\* of its argument and trace-time checks, "" standing for "passes".
\*  - a 0-d input has no axis to scan over;
\*  - a scanned input's extent along the axis must equal `length`;
\*  - the body is traced once, whatever `length` is, and the carry it returns
\*    must have the type of the carry it was given;
\*  - a negative `length` cannot be the extent of the stacked outputs; with no
\*    stacked outputs it is rejected only when the library's internal type
\*    checks are enabled, and otherwise the loop runs no iteration.
ScanCheck(ca, s, inp, n, all, axis) ==
    IF axis # None /\ inp.kind = "scalar" THEN {"ValueError"}
    ELSE IF axis # None /\ inp.kind = "array" /\ Len(inp.xs) # n THEN {"ValueError"}
    ELSE IF step(ca, s, NoInput).out.shape # s.shape THEN {"TypeError"}
    ELSE IF n < 0 /\ all THEN {"ValueError"}
    ELSE IF n < 0 THEN {"TypeError", ""}
    ELSE {""}

\* a body that emits the carry it was given instead of the new state
ScanBodyStale(ca, st, x, all) ==
    LET r == step(ca, st, x)
    IN [ca |-> ca, carry |-> r.out, y |-> IF all THEN <<st>> ELSE <<>>, call |-> r]

\* a body that rebinds a unit of the engine it carries
ScanBodyRebinds(ca, st, x, all) ==
    LET r == step(ca, st, x)
    IN [ca |-> [ca EXCEPT !.update = "increment"], carry |-> r.out,
        y |-> IF all THEN <<r.out>> ELSE <<>>, call |-> r]

\* a body that rebinds the perceive unit of the engine it carries
ScanBodyRebindsPerceive(ca, st, x, all) ==
    LET r == step(ca, st, x)
    IN [ca |-> [ca EXCEPT !.perceive = "neighbours"], carry |-> r.out,
        y |-> IF all THEN <<r.out>> ELSE <<>>, call |-> r]

\* the body `step` of __call__: new carry and the per-iteration output
\* (`y` is <<state>> for a state and <<>> for None)
ScanBody(ca, st, x, all) ==
    LET r == step(ca, st, x)
    IN [ca |-> ca, carry |-> r.out, y |-> IF all THEN <<r.out>> ELSE <<>>, call |-> r]

\* a return that stacks the scan's outputs without first_state in front
ReturnValueNoFirst(first, ys, last, all) ==
    IF all THEN RetStates(ys) ELSE RetState(last)

\* a return that gives back first_state where last_state is meant
ReturnValueFirst(first, ys, last, all) ==
    IF all THEN RetStates(<<first>> \o ys) ELSE RetState(first)

\* the return expression of __call__
ReturnValue(first, ys, last, all) ==
    IF all THEN RetStates(<<first>> \o ys) ELSE RetState(last)

Init ==
    /\ \E p \in PerceiveUnits, u \in UpdateUnits : self = CAInit(p, u)
    /\ pc = "idle"
    /\ op = "none"
    /\ first_state = NoState
    /\ input = NoInput
    /\ num_steps = 1
    /\ all_steps = FALSE
    /\ input_in_axis = None
    /\ i = 0
    /\ state = NoState
    /\ states = <<>>
    /\ calls = <<>>
    /\ result = NoResult
    /\ plan = NoPlan
    /\ hist = <<>>

\* a caller invokes ca.step(state, input)
StepCall(s, inp) ==
    /\ pc = "idle"
    /\ LET r == step(self, s, inp)
       IN /\ calls' = <<r>>
          /\ result' = RetState(r.out)
    /\ op' = "step"
    /\ pc' = "done"
    /\ first_state' = s
    /\ input' = inp
    /\ state' = s
    /\ states' = <<>>
    /\ i' = 0
    /\ UNCHANGED <<self, num_steps, all_steps, input_in_axis, plan, hist>>

\* a caller invokes ca(first_state, input, num_steps=, all_steps=, input_in_axis=)
Call(s, inp, n, all, axis) ==
    /\ pc = "idle"
    /\ op' = "run"
    /\ first_state' = s
    /\ input' = inp
    /\ num_steps' = n
    /\ all_steps' = all
    /\ input_in_axis' = axis
    /\ i' = 0
    /\ state' = s
    /\ states' = <<>>
    /\ calls' = <<>>
    /\ \E e \in ScanCheck(self, s, inp, n, all, axis) :
          IF e = "" THEN pc' = "scan" /\ result' = NoResult
          ELSE pc' = "done" /\ result' = Raise(e)
    /\ UNCHANGED <<self, plan, hist>>

\* a scan that feeds every iteration the initial carry
ScanStepFromFirst ==
    /\ pc = "scan"
    /\ i < num_steps
    /\ LET b == ScanBody(self, first_state, ScanSlice(input, input_in_axis, i), all_steps)
       IN /\ self' = b.ca
          /\ state' = b.carry
          /\ states' = states \o b.y
          /\ calls' = Append(calls, b.call)
    /\ i' = i + 1
    /\ UNCHANGED <<pc, op, first_state, input, num_steps, all_steps, input_in_axis, result,
                   plan, hist>>

\* a scan that counts two iterations for one call of the body
ScanStepSkips ==
    /\ pc = "scan"
    /\ i < num_steps
    /\ LET b == ScanBody(self, state, ScanSlice(input, input_in_axis, i), all_steps)
       IN /\ self' = b.ca
          /\ state' = b.carry
          /\ states' = states \o b.y
          /\ calls' = Append(calls, b.call)
    /\ i' = i + 2
    /\ UNCHANGED <<pc, op, first_state, input, num_steps, all_steps, input_in_axis, result,
                   plan, hist>>

\* one iteration of the scan
ScanStep ==
    /\ pc = "scan"
    /\ i < num_steps
    /\ LET b == ScanBody(self, state, ScanSlice(input, input_in_axis, i), all_steps)
       IN /\ self' = b.ca
          /\ state' = b.carry
          /\ states' = states \o b.y
          /\ calls' = Append(calls, b.call)
    /\ i' = i + 1
    /\ UNCHANGED <<pc, op, first_state, input, num_steps, all_steps, input_in_axis, result,
                   plan, hist>>

\* the scan has run `length` iterations: __call__ returns
Return ==
    /\ pc = "scan"
    /\ i >= num_steps
    /\ result' = ReturnValue(first_state, states, state, all_steps)
    /\ pc' = "done"
    /\ UNCHANGED <<self, op, first_state, input, num_steps, all_steps, input_in_axis,
                   i, state, states, calls, plan, hist>>

\* the caller has taken the result; the call's frame is gone
DropFrame ==
    /\ pc = "done"
    /\ pc' = "idle"
    /\ op' = "none"
    /\ first_state' = NoState
    /\ input' = NoInput
    /\ num_steps' = 1
    /\ all_steps' = FALSE
    /\ input_in_axis' = None
    /\ i' = 0
    /\ state' = NoState
    /\ states' = <<>>
    /\ calls' = <<>>
    /\ result' = NoResult
    /\ UNCHANGED <<self, plan>>

Finish == DropFrame /\ UNCHANGED hist

\* a caller with any arguments
AnyStepCall ==
    /\ pc = "idle"
    /\ \E s \in States, inp \in Inputs : StepCall(s, inp)

AnyCall ==
    /\ pc = "idle"
    /\ \E s \in States, inp \in Inputs, n \in -1..MaxSteps, all \in BOOLEAN, axis \in Axes :
          Call(s, inp, n, all, axis)

Next ==
    \/ AnyStepCall
    \/ AnyCall
    \/ ScanStep
    \/ Return
    \/ Finish

Spec == Init /\ [][Next]_vars

\* The scan is a loop without suspension or cancellation: once entered, its
\* next iteration, and then the return, do happen.
SpecFair == Spec /\ WF_vars(ScanStep) /\ WF_vars(Return)

\* ------------------------------------------------------------------------
\* A caller that runs a+b steps in one run, then a steps and b more steps
\* from where that run ended, all with the same whole input.
InitCompose ==
    /\ \E p \in PerceiveUnits, u \in UpdateUnits : self = CAInit(p, u)
    /\ pc = "idle"
    /\ op = "none"
    /\ first_state = NoState
    /\ input = NoInput
    /\ num_steps = 1
    /\ all_steps = FALSE
    /\ input_in_axis = None
    /\ i = 0
    /\ state = NoState
    /\ states = <<>>
    /\ calls = <<>>
    /\ result = NoResult
    /\ \E s \in States, inp \in Inputs, a \in 0..MaxSteps, b \in 0..MaxSteps :
          plan = [kind |-> "compose", s |-> s, inp |-> inp, a |-> a, b |-> b]
    /\ hist = <<>>

ComposeCall ==
    /\ plan.kind = "compose"
    /\ \/ /\ Len(hist) = 0
          /\ Call(plan.s, plan.inp, plan.a + plan.b, FALSE, None)
       \/ /\ Len(hist) = 1
          /\ Call(plan.s, plan.inp, plan.a, FALSE, None)
       \/ /\ Len(hist) = 2
          /\ hist[2].kind = "state"
          /\ Call(hist[2].states[1], plan.inp, plan.b, FALSE, None)

\* the scripted caller keeps the result
Collect == DropFrame /\ hist' = Append(hist, result)

NextCompose ==
    \/ ComposeCall
    \/ ScanStep
    \/ Return
    \/ Collect

SpecCompose == InitCompose /\ [][NextCompose]_vars

\* ------------------------------------------------------------------------
\* no call is active
IdleFrame ==
    /\ pc = "idle"
    /\ op = "none"
    /\ first_state = NoState
    /\ input = NoInput
    /\ num_steps = 1
    /\ all_steps = FALSE
    /\ input_in_axis = None
    /\ i = 0
    /\ state = NoState
    /\ states = <<>>
    /\ calls = <<>>
    /\ result = NoResult

\* A caller that makes the same run twice ("repeat"), or the same run with
\* all_steps=False and then with all_steps=True ("both").
InitPair ==
    /\ \E p \in PerceiveUnits, u \in UpdateUnits : self = CAInit(p, u)
    /\ IdleFrame
    /\ \E s \in States, inp \in Inputs, n \in -1..MaxSteps, axis \in Axes :
          \/ \E all \in BOOLEAN :
                plan = [kind |-> "repeat", s |-> s, inp |-> inp, n |-> n, all |-> all,
                        axis |-> axis]
          \/ plan = [kind |-> "both", s |-> s, inp |-> inp, n |-> n, all |-> FALSE,
                     axis |-> axis]
    /\ hist = <<>>

PairCall ==
    /\ plan.kind \in {"repeat", "both"}
    /\ Len(hist) < 2
    /\ Call(plan.s, plan.inp, plan.n,
            IF plan.kind = "repeat" THEN plan.all ELSE Len(hist) = 1, plan.axis)

NextPair ==
    \/ PairCall
    \/ ScanStep
    \/ Return
    \/ Collect

SpecPair == InitPair /\ [][NextPair]_vars

\* ------------------------------------------------------------------------
\* A caller with a per-step input X of a+b slices: one run of a+b steps over X;
\* a run of a steps over X[0:a]; from its result a run of b steps over
\* X[a:a+b]; and, from the same result, a run of b steps given X itself.
InitSliced ==
    /\ \E p \in PerceiveUnits, u \in UpdateUnits : self = CAInit(p, u)
    /\ IdleFrame
    /\ \E s \in States, xs \in SeqsUpTo(0..MaxIn, MaxLen) :
          \E a \in 0..Len(xs) :
             plan = [kind |-> "sliced", s |-> s, inp |-> Array(xs), a |-> a,
                     b |-> Len(xs) - a]
    /\ hist = <<>>

SlicedCall ==
    /\ plan.kind = "sliced"
    /\ \/ /\ Len(hist) = 0
          /\ Call(plan.s, plan.inp, plan.a + plan.b, FALSE, Some(0))
       \/ /\ Len(hist) = 1
          /\ Call(plan.s, Array(SubSeq(plan.inp.xs, 1, plan.a)), plan.a, FALSE, Some(0))
       \/ /\ Len(hist) = 2
          /\ hist[2].kind = "state"
          /\ Call(hist[2].states[1],
                  Array(SubSeq(plan.inp.xs, plan.a + 1, plan.a + plan.b)), plan.b,
                  FALSE, Some(0))
       \/ /\ Len(hist) = 3
          /\ hist[2].kind = "state"
          /\ Call(hist[2].states[1], plan.inp, plan.b, FALSE, Some(0))

NextSliced ==
    \/ SlicedCall
    \/ ScanStep
    \/ Return
    \/ Collect

SpecSliced == InitSliced /\ [][NextSliced]_vars

\* ------------------------------------------------------------------------
\* UnsupervisedCA
\* ------------------------------------------------------------------------
Keys == 0..MaxKey

EncoderUnits == {"diagonal", "latent", "shared_logvar", "wider_logvar"}

\* Encoder.__call__(target) -> (mean, logvar)
EncoderApply(e, target) ==
    CASE e = "diagonal" ->
            [mean |-> target,
             logvar |-> [shape |-> target.shape, val |-> (target.val + 1) % Mod]]
      [] e = "latent" ->
            [mean |-> [shape |-> 1, val |-> target.val],
             logvar |-> [shape |-> 1, val |-> (2 * target.val) % Mod]]
      [] e = "shared_logvar" ->     \* one log-variance for the whole tensor
            [mean |-> target, logvar |-> [shape |-> 1, val |-> 1]]
      [] e = "wider_logvar" ->
            [mean |-> target, logvar |-> [shape |-> target.shape + 1, val |-> 0]]

\* jax.random.normal(key, shape): a function of the key and the shape alone
Normal(key, shape) == [shape |-> shape, val |-> (key + shape) % Mod]

\* jnp.exp(0.5 * logvar)
ExpHalf(logvar) == [shape |-> logvar.shape, val |-> (logvar.val + 1) % Mod]

\* the shape two operands of `*` or `+` broadcast to; 0 when they do not
Broadcast(a, b) ==
    IF a = b THEN a ELSE IF a = 1 THEN b ELSE IF b = 1 THEN a ELSE 0

\* UnsupervisedCA.__init__
UnsupervisedCAInit(perceive, update, encoder) ==
    CAInit(perceive, update) @@ [encoder |-> encoder]

\* encode drawing the noise with the target's shape instead of the mean's
encodeTargetShape(ca, target, key) ==
    LET enc == EncoderApply(ca.encoder, target)
        noise == Normal(key, target.shape)
        std == ExpHalf(enc.logvar)
        prod == Broadcast(noise.shape, std.shape)
        sum == IF prod = 0 THEN 0 ELSE Broadcast(enc.mean.shape, prod)
    IN [encoder_calls |-> <<target>>,
        normal_calls |-> <<[key |-> key, shape |-> target.shape]>>,
        out |-> IF sum = 0 THEN Raise("TypeError")
                ELSE RetState([shape |-> sum,
                               val |-> (enc.mean.val + noise.val * std.val) % Mod])]

\* UnsupervisedCA.encode: what it passes to the encoder and to
\* jax.random.normal, and what it returns (or the broadcasting error)
encode(ca, target, key) ==
    LET enc == EncoderApply(ca.encoder, target)
        noise == Normal(key, enc.mean.shape)
        std == ExpHalf(enc.logvar)
        prod == Broadcast(noise.shape, std.shape)
        sum == IF prod = 0 THEN 0 ELSE Broadcast(enc.mean.shape, prod)
    IN [encoder_calls |-> <<target>>,
        normal_calls |-> <<[key |-> key, shape |-> enc.mean.shape]>>,
        out |-> IF sum = 0 THEN Raise("TypeError")
                ELSE RetState([shape |-> sum,
                               val |-> (enc.mean.val + noise.val * std.val) % Mod])]

\* an encode that leaves the caller's key advanced
EncodeCallAdvances(target, key) ==
    /\ pc = "idle"
    /\ LET r == encode(self, target, key)
       IN /\ calls' = <<[encoder_calls |-> r.encoder_calls, normal_calls |-> r.normal_calls]>>
          /\ result' = r.out
    /\ op' = "encode"
    /\ pc' = "done"
    /\ plan' = [plan EXCEPT !.key = (key + 1) % (MaxKey + 1)]
    /\ UNCHANGED <<self, first_state, input, num_steps, all_steps, input_in_axis,
                   i, state, states, hist>>

\* a caller invokes ca.encode(target, key); its key is a value encode cannot rebind
EncodeCall(target, key) ==
    /\ pc = "idle"
    /\ LET r == encode(self, target, key)
       IN /\ calls' = <<[encoder_calls |-> r.encoder_calls, normal_calls |-> r.normal_calls]>>
          /\ result' = r.out
    /\ op' = "encode"
    /\ pc' = "done"
    /\ UNCHANGED <<self, first_state, input, num_steps, all_steps, input_in_axis,
                   i, state, states, plan, hist>>

\* A caller holding a target and a key, who encodes twice with them.
InitEncode ==
    /\ \E p \in PerceiveUnits, u \in UpdateUnits, e \in EncoderUnits :
          self = UnsupervisedCAInit(p, u, e)
    /\ IdleFrame
    /\ \E target \in States, key \in Keys :
          plan = [kind |-> "encode", target |-> target, key |-> key]
    /\ hist = <<>>

ReplayEncode ==
    /\ plan.kind = "encode"
    /\ Len(hist) < 2
    /\ EncodeCall(plan.target, plan.key)

NextEncode ==
    \/ ReplayEncode
    \/ Collect

SpecEncode == InitEncode /\ [][NextEncode]_vars

\* ------------------------------------------------------------------------
\* Properties
\* ------------------------------------------------------------------------

\* the units keep the state's shape (the contract of Perceive / Update)
ShapePreserving(ca, s) ==
    UpdateApply(ca.update, s, PerceiveApply(ca.perceive, s), NoInput).shape = s.shape

\* the input can be delivered to n steps
InputFits(inp, axis, n) ==
    \/ axis = None
    \/ inp.kind = "none"
    \/ inp.kind = "array" /\ Len(inp.xs) = n

\* slice k (0-based) of a 1-d input along axis 0
SliceOf(inp, k) == Scalar(inp.xs[k + 1])

\* the input the k-th transition (0-based) is meant to get
Delivered(inp, axis, k) ==
    IF axis # None /\ inp.kind = "array" THEN SliceOf(inp, k) ELSE inp

\* one transition by the units of ca
Transition(ca, s, inp) ==
    UpdateApply(ca.update, s, PerceiveApply(ca.perceive, s), inp)

\* s after k transitions
RECURSIVE StepTimes(_, _, _, _, _)
StepTimes(ca, s, inp, axis, k) ==
    IF k <= 0 THEN s
    ELSE Transition(ca, StepTimes(ca, s, inp, axis, k - 1), Delivered(inp, axis, k - 1))

RunDone == pc = "done" /\ op = "run"
Regular == ShapePreserving(self, first_state) /\ InputFits(input, input_in_axis, num_steps)

\* C1: a run of n > 0 steps with all_steps=True returns n+1 states: first_state,
\* then for each i in 1..n the state after i transitions from first_state.
C1_Trajectory ==
    (RunDone /\ num_steps > 0 /\ all_steps /\ Regular) =>
        /\ result.kind = "trajectory"
        /\ Len(result.states) = num_steps + 1
        /\ result.states[1] = first_state
        /\ \A k \in 1..num_steps :
              result.states[k + 1] = StepTimes(self, first_state, input, input_in_axis, k)

C1_Witness ==
    /\ RunDone /\ num_steps >= 2 /\ all_steps
    /\ result.kind = "trajectory"
    /\ result.states[1] # result.states[2]
    /\ result.states[2] # result.states[3]

\* C2: a run of 0 steps makes no transition: it returns first_state, or the
\* one-element trajectory <<first_state>> when all_steps is set.
C2_ZeroSteps ==
    (RunDone /\ num_steps = 0 /\ Regular) =>
        /\ calls = <<>>
        /\ result = IF all_steps THEN RetStates(<<first_state>>) ELSE RetState(first_state)

C2_Witness ==
    /\ RunDone /\ num_steps = 0 /\ all_steps
    /\ self.update = "increment"
    /\ result = RetStates(<<first_state>>)

\* C3 (under SpecCompose): a run of a+b steps returns what a run of a steps
\* followed by a run of b steps from its result returns, the whole input being
\* the same in the three runs.
C3_Composition ==
    (plan.kind = "compose" /\ Len(hist) = 3) =>
        /\ hist[1].kind = "state"
        /\ hist[3] = hist[1]

C3_Witness ==
    /\ plan.kind = "compose" /\ Len(hist) = 3
    /\ plan.a >= 1 /\ plan.b >= 1
    /\ hist[2].kind = "state" /\ hist[3].kind = "state"
    /\ hist[2].states[1] # plan.s
    /\ hist[3].states[1] # hist[2].states[1]

\* C4: during a run, the k-th step call gets the whole input (None included)
\* when input_in_axis is None and slice k of the input when it is given; a
\* run that returns has made num_steps step calls.
C4_InputDelivery ==
    (op = "run" /\ (input_in_axis = None \/ input.kind = "array")) =>
        /\ \A k \in 1..Len(calls) :
              calls[k].update_calls[1].input =
                  (IF input_in_axis = None THEN input ELSE SliceOf(input, k - 1))
        /\ (pc = "done" /\ result.kind # "error" /\ num_steps >= 0) => Len(calls) = num_steps

C4_Witness ==
    /\ RunDone /\ input_in_axis = Some(0) /\ num_steps = 2
    /\ input.kind = "array" /\ Len(input.xs) = 2 /\ input.xs[1] # input.xs[2]
    /\ Len(calls) = 2
    /\ calls[2].update_calls[1].input = Scalar(input.xs[2])

\* C5: every step call applies perceive once, to the state it was given, then
\* update once, to that same state, the perception of it and the given input,
\* and returns update's result.
StepContract(c, st) ==
    /\ c.perceive_calls = <<st>>
    /\ Len(c.update_calls) = 1
    /\ c.update_calls[1].state = st
    /\ c.update_calls[1].perception = PerceiveApply(self.perceive, st)
    /\ c.out = UpdateApply(self.update, st, PerceiveApply(self.perceive, st),
                           c.update_calls[1].input)

C5_Step ==
    /\ (pc = "done" /\ op = "step") =>
          /\ Len(calls) = 1
          /\ StepContract(calls[1], first_state)
          /\ calls[1].update_calls[1].input = input
          /\ result = RetState(calls[1].out)
    /\ (op = "run") =>
          \A k \in 1..Len(calls) :
              StepContract(calls[k], IF k = 1 THEN first_state ELSE calls[k - 1].out)

C5_Witness ==
    /\ pc = "done" /\ op = "step"
    /\ self.perceive = "neighbours" /\ self.update = "add_perception"
    /\ input.kind = "scalar"
    /\ result.states[1] # first_state

\* C6: a run given input_in_axis and an input with fewer slices than num_steps
\* fails: it makes no step and returns no state.
C6_ShortInput ==
    (op = "run" /\ input_in_axis # None /\ input.kind = "array"
               /\ Len(input.xs) < num_steps) =>
        /\ pc = "done"
        /\ result.kind = "error"
        /\ result.states = <<>>
        /\ calls = <<>>

C6_Witness ==
    /\ RunDone /\ input_in_axis = Some(0) /\ input.kind = "array"
    /\ Len(input.xs) = 1 /\ num_steps = 2
    /\ ShapePreserving(self, first_state)
    /\ result = Raise("ValueError")

\* C7: a run with a negative num_steps fails instead of returning a state or
\* a trajectory.
C7_NegativeRejected ==
    (RunDone /\ num_steps < 0) => result.kind = "error"

\* C8: a run given input_in_axis but no input fails, and makes no step with
\* an absent input (stated for num_steps >= 0).
C8_AxisWithoutInput ==
    (op = "run" /\ input_in_axis # None /\ input.kind = "none" /\ num_steps >= 0) =>
        /\ calls = <<>>
        /\ pc = "done" => result.kind = "error"

\* C9: a run fails when the units turn a state into one of another shape, and
\* every state of a run that returns has the shape of first_state.
C9_Shape ==
    /\ (op = "run" /\ ~ShapePreserving(self, first_state)) =>
          /\ pc = "done"
          /\ result.kind = "error"
          /\ calls = <<>>
    /\ (op = "run") =>
          /\ state.shape = first_state.shape
          /\ \A k \in 1..Len(states) : states[k].shape = first_state.shape
          /\ \A k \in 1..Len(result.states) : result.states[k].shape = first_state.shape

C9_Witness ==
    /\ RunDone /\ num_steps >= 1
    /\ InputFits(input, input_in_axis, num_steps)
    /\ self.perceive = "wide" /\ self.update = "from_perception"
    /\ result = Raise("TypeError")

\* C10: no step of a call changes the engine's perceive and update fields;
\* a run in progress leaves first_state and input as the caller passed them;
\* and what a run returns is decided by the engine as constructed and the
\* arguments alone, whatever calls came before.
Expected(ca, s, inp, n, all, axis) ==
    IF all THEN RetStates([k \in 1..(n + 1) |-> StepTimes(ca, s, inp, axis, k - 1)])
    ELSE RetState(StepTimes(ca, s, inp, axis, n))

C10_Stateless ==
    [][/\ self' = self
       /\ (pc = "scan" => first_state' = first_state /\ input' = input)
       /\ (pc' = "done" /\ op' = "run" /\ result'.kind # "error") =>
             result' = Expected(self, first_state', input', num_steps', all_steps',
                                input_in_axis')]_vars

C10_Witness ==
    /\ RunDone /\ num_steps >= 2 /\ input_in_axis = Some(0)
    /\ self.update = "add_input"
    /\ result.kind = "state"
    /\ result.states[1] # first_state

\* C11 (under SpecPair): two runs of the same engine with the same first_state,
\* input, num_steps, all_steps and input_in_axis give the same outcome (stated
\* for the calls whose outcome does not hang on the library's configuration:
\* num_steps >= 0, or all_steps set).
C11_Determinism ==
    (plan.kind = "repeat" /\ Len(hist) = 2 /\ (plan.n >= 0 \/ plan.all)) =>
        hist[1] = hist[2]

C11_Witness ==
    /\ plan.kind = "repeat" /\ Len(hist) = 2
    /\ plan.n >= 2 /\ plan.all /\ plan.axis = Some(0)
    /\ self.update = "mix_input"
    /\ hist[1].kind = "trajectory" /\ hist[2].kind = "trajectory"
    /\ hist[1].states[2] # hist[1].states[3]

\* C16 (under SpecPair): for num_steps >= 0 the run with all_steps=False fails
\* exactly when the run with all_steps=True on the same arguments fails, and
\* otherwise returns the last element of the trajectory that run returns.
C16_AllStepsOnlyOutput ==
    (plan.kind = "both" /\ Len(hist) = 2 /\ plan.n >= 0) =>
        \/ hist[1].kind = "error" /\ hist[2] = hist[1]
        \/ /\ hist[1].kind = "state"
           /\ hist[2].kind = "trajectory"
           /\ Len(hist[2].states) = plan.n + 1
           /\ hist[1].states[1] = hist[2].states[Len(hist[2].states)]

C16_Witness ==
    /\ plan.kind = "both" /\ Len(hist) = 2 /\ plan.n >= 2
    /\ hist[1].kind = "state" /\ hist[2].kind = "trajectory"
    /\ hist[1].states[1] # plan.s
    /\ hist[2].states[2] # hist[1].states[1]

\* C17 (under SpecSliced): every run takes its slices from index 0 of the
\* input it is given: a run of a+b steps over X returns what a run of a steps
\* over X[0:a] followed by a run of b steps over X[a:a+b] returns; the second
\* run given X itself (a > 0) does not return that state, it fails.
C17_SlicedComposition ==
    /\ (plan.kind = "sliced" /\ Len(hist) >= 3) =>
          /\ hist[1].kind = "state"
          /\ hist[3] = hist[1]
    /\ (plan.kind = "sliced" /\ Len(hist) = 4 /\ plan.a > 0) => hist[4].kind = "error"

C17_Witness ==
    /\ plan.kind = "sliced" /\ Len(hist) = 4
    /\ plan.a >= 1 /\ plan.b >= 1
    /\ plan.inp.xs[1] # plan.inp.xs[plan.a + 1]
    /\ self.update = "mix_input"
    /\ hist[3].kind = "state" /\ hist[3].states[1] # hist[2].states[1]
    /\ hist[4].kind = "error"

\* C15 (under SpecFair): a run that enters the scan ends, and when it returns
\* it has made exactly num_steps transitions; at every moment the k-th
\* transition made so far took the state the (k-1)-th produced (first_state for
\* the first), the carry is the state the last one produced, and the number of
\* transitions made is the iteration count, whatever all_steps is.
InOrder ==
    (op = "run") =>
        /\ Len(calls) = i
        /\ i <= (IF num_steps < 0 THEN 0 ELSE num_steps)
        /\ \A k \in 1..Len(calls) :
              calls[k].update_calls[1].state =
                  (IF k = 1 THEN first_state ELSE calls[k - 1].out)
        /\ state = (IF calls = <<>> THEN first_state ELSE calls[Len(calls)].out)
        /\ (pc = "done" /\ result.kind # "error") =>
              /\ Len(calls) = (IF num_steps < 0 THEN 0 ELSE num_steps)
              /\ result.states[Len(result.states)] = state

C15_TerminatesInOrder ==
    /\ []InOrder
    /\ (pc = "scan") ~> (pc = "done")

C15_Witness ==
    /\ RunDone /\ num_steps >= 2 /\ ~all_steps
    /\ self.update = "mix_input" /\ input_in_axis = Some(0)
    /\ Len(calls) = num_steps
    /\ calls[2].update_calls[1].state = calls[1].out
    /\ calls[1].out # first_state
    /\ result = RetState(calls[2].out)

\* C18: a run given input_in_axis and an input whose extent along the axis is
\* not num_steps makes no step and fails; in particular an input with more
\* slices than num_steps is not cut to its first num_steps slices.
C18_ExactExtent ==
    (op = "run" /\ input_in_axis # None /\ input.kind = "array") =>
        /\ (Len(input.xs) > num_steps) =>
              /\ pc = "done"
              /\ result.kind = "error"
              /\ calls = <<>>
        /\ (pc = "scan" \/ (pc = "done" /\ result.kind # "error")) =>
              Len(input.xs) = num_steps

C18_Witness ==
    /\ RunDone /\ input_in_axis = Some(0) /\ input.kind = "array"
    /\ Len(input.xs) = 2 /\ num_steps = 1
    /\ ShapePreserving(self, first_state)
    /\ result = Raise("ValueError")

EncodeDone == pc = "done" /\ op = "encode"

\* what the encoder of the engine returns for the target of the current call
Latent == EncoderApply(self.encoder, calls[1].encoder_calls[1])

\* C12, as claimed (under SpecEncode): once encode has returned, the caller's
\* key is no longer the key that was passed in.
C12_KeyAdvanced ==
    EncodeDone => plan.key # calls[1].normal_calls[1].key

\* C12, amended (under SpecEncode): encode leaves the key as it was passed:
\* once it has returned, the caller's key is still the key the noise was drawn
\* with, and a second encode of the same target with it returns the same value.
C12_KeyUnchanged ==
    /\ EncodeDone => plan.key = calls[1].normal_calls[1].key
    /\ (EncodeDone /\ Len(hist) = 1) => result = hist[1]

C12_Witness ==
    /\ EncodeDone /\ Len(hist) = 1
    /\ self.encoder = "diagonal"
    /\ result.kind = "state"
    /\ result = hist[1]
    /\ result.states[1] # plan.target

\* C13 (under SpecEncode): encode fails, and returns no encoded target, when
\* the encoder's mean and log-variance have different shapes.
C13_ShapeMismatchRejected ==
    (EncodeDone /\ Latent.mean.shape # Latent.logvar.shape) => result.kind = "error"

\* C14 (under SpecEncode): what encode returns is decided by the encoder, the
\* target and the key alone: the noise is drawn once, with the given key and
\* the mean's shape; with a mean and a log-variance of one shape the result is
\* mean + noise * exp(0.5 * logvar), of the mean's shape; and two calls with the
\* same target and key return the same value.
C14_Reproducible ==
    /\ EncodeDone =>
          /\ calls[1].encoder_calls = <<plan.target>>
          /\ calls[1].normal_calls = <<[key |-> plan.key, shape |-> Latent.mean.shape]>>
          /\ (Latent.mean.shape = Latent.logvar.shape) =>
                /\ result.kind = "state"
                /\ result.states[1].shape = Latent.mean.shape
                /\ result.states[1].val =
                      (Latent.mean.val
                         + Normal(plan.key, Latent.mean.shape).val
                             * ExpHalf(Latent.logvar).val) % Mod
    /\ (plan.kind = "encode" /\ Len(hist) = 2) => hist[1] = hist[2]

C14_Witness ==
    /\ plan.kind = "encode" /\ Len(hist) = 2
    /\ self.encoder = "latent" /\ plan.target.shape > 1
    /\ hist[1].kind = "state"
    /\ hist[1].states[1].shape = 1
    /\ hist[2] = hist[1]

====
